---------------------------- MODULE Spec2Model ----------------------------
(***************************************************************************)
(* A model of src/app.py (Lexindex Web): the audio-URL resolver, the tag   *)
(* stripping of the dictionary parser, the quiz answer check, the          *)
(* favorites collection with its JSON document, and the word lookup        *)
(* orchestrator with its process-wide cache.                               *)
(*                                                                         *)
(* Python strings are modelled as sequences of one-character strings, so   *)
(* that lower(), strip(), startswith(), replace() and int() are computed   *)
(* character by character.                                                 *)
(***************************************************************************)
EXTENDS Naturals, Integers, Sequences, FiniteSets, TLC

VARIABLES
    audio_filename,   \* the "audio" field handed to the audio manager
    audio_subdirectory, \* what get_audio_subdirectory returned for it
    audio_info,       \* what extract_audio_info_from_api_response made of it
    strip_site,       \* which call site of the tag stripping runs
    strip_text,       \* the raw vendor text
    strip_once,       \* the stripped text
    strip_twice,      \* the stripped text, stripped again
    quiz_request,     \* the JSON body of POST /api/quiz/check
    quiz_response,    \* its JSON response
    favorites_data,   \* the global favorites list
    favorites_file,   \* favorites.json
    fav_last,         \* the last favorites request and how it ended
    cache,            \* WebAPIManager.cache: lowercased word -> result object
    heap,             \* the combined results made so far, by object identity
    lookup_last,      \* the last get_word_data call: its word, result, remote calls
    returned,         \* what the latest lookup of each word returned
    parse_response,   \* the dictionary API's response to one lookup
    parse_thesaurus,  \* the thesaurus API's response to it
    parse_translation, \* what the translator does in it
    parse_result,     \* what that lookup returned
    threads,          \* the get_word_data calls in flight, one per request thread
    made_for          \* for each object of the heap, the word its lookup was given

audio_vars == <<audio_filename, audio_subdirectory, audio_info>>
strip_vars == <<strip_site, strip_text, strip_once, strip_twice>>
quiz_vars == <<quiz_request, quiz_response>>
fav_vars == <<favorites_data, favorites_file, fav_last>>
lookup_vars == <<cache, heap, lookup_last, returned>>
parse_vars == <<parse_response, parse_thesaurus, parse_translation, parse_result>>
thread_vars == <<threads, made_for>>
vars == <<audio_vars, strip_vars, quiz_vars, fav_vars, lookup_vars, parse_vars,
          thread_vars>>

not_audio == <<strip_vars, quiz_vars, fav_vars, lookup_vars, parse_vars, thread_vars>>
not_strip == <<audio_vars, quiz_vars, fav_vars, lookup_vars, parse_vars, thread_vars>>
not_quiz == <<audio_vars, strip_vars, fav_vars, lookup_vars, parse_vars, thread_vars>>
not_fav == <<audio_vars, strip_vars, quiz_vars, lookup_vars, parse_vars, thread_vars>>
not_lookup == <<audio_vars, strip_vars, quiz_vars, fav_vars, parse_vars, thread_vars>>
not_parse == <<audio_vars, strip_vars, quiz_vars, fav_vars, lookup_vars, thread_vars>>
not_threads == <<audio_vars, strip_vars, quiz_vars, fav_vars, parse_vars, lookup_last>>

\* The value of a variable no request has written yet.
NotYet == [t |-> "notyet"]

-----------------------------------------------------------------------------
(* Python (JSON) values: each carries its type, as the code inspects it.    *)

\* str: a sequence of one-character strings
Str(s) == [t |-> "str", v |-> s]

\* int
Num(n) == [t |-> "int", v |-> n]

\* None (JSON null)
None == [t |-> "null", v |-> 0]

\* list
List(xs) == [t |-> "list", v |-> xs]

\* dict: its items <<key, value>> in insertion order
Dict(items) == [t |-> "dict", v |-> items]

\* The keys and literal strings the code looks for.
kWord == <<"W","o","r","d">>
kMain_Definition == <<"M","a","i","n","_","D","e","f","i","n","i","t","i","o","n">>
kmeta == <<"m","e","t","a">>
kid == <<"i","d">>
kfl == <<"f","l">>
khwi == <<"h","w","i">>
kprs == <<"p","r","s">>
kmw == <<"m","w">>
ksound == <<"s","o","u","n","d">>
kaudio == <<"a","u","d","i","o">>
ket == <<"e","t">>
ktext == <<"t","e","x","t">>
kdef == <<"d","e","f">>
ksseq == <<"s","s","e","q">>
kdt == <<"d","t">>
kvis == <<"v","i","s">>
kt == <<"t">>
kshortdef == <<"s","h","o","r","t","d","e","f">>
ksyns == <<"s","y","n","s">>
kants == <<"a","n","t","s">>
krel == <<"r","e","l">>
knear == <<"n","e","a","r">>

\* key in d, for a dict d
HasKey(d, k) == \E i \in DOMAIN d.v : d.v[i][1] = k

\* d[key], for a dict d holding the key
Get(d, k) == d.v[CHOOSE i \in DOMAIN d.v : d.v[i][1] = k][2]

\* bool(x)
Truthy(x) ==
    CASE x.t = "null" -> FALSE
      [] x.t = "int" -> x.v # 0
      [] OTHER -> x.v # <<>>

-----------------------------------------------------------------------------
(* Python str operations, over ASCII.                                      *)

UpperLetters ==
    <<"A","B","C","D","E","F","G","H","I","J","K","L","M",
      "N","O","P","Q","R","S","T","U","V","W","X","Y","Z">>

LowerLetters ==
    <<"a","b","c","d","e","f","g","h","i","j","k","l","m",
      "n","o","p","q","r","s","t","u","v","w","x","y","z">>

Digits == <<"0","1","2","3","4","5","6","7","8","9">>

Whitespace == {" ", "\t", "\n", "\r"}

IndexIn(c, letters) ==
    IF \E i \in DOMAIN letters : letters[i] = c
    THEN CHOOSE i \in DOMAIN letters : letters[i] = c
    ELSE 0

LowerChar(c) ==
    IF IndexIn(c, UpperLetters) # 0 THEN LowerLetters[IndexIn(c, UpperLetters)] ELSE c

UpperChar(c) ==
    IF IndexIn(c, LowerLetters) # 0 THEN UpperLetters[IndexIn(c, LowerLetters)] ELSE c

IsCased(c) == IndexIn(c, UpperLetters) # 0 \/ IndexIn(c, LowerLetters) # 0

\* str.lower()
Lower(s) == [i \in 1..Len(s) |-> LowerChar(s[i])]

\* str.upper()
Upper(s) == [i \in 1..Len(s) |-> UpperChar(s[i])]

\* str.title(): a cased character is upper-cased when it follows an uncased
\* one (or starts the string) and lower-cased otherwise.
Title(s) ==
    [i \in 1..Len(s) |->
        IF i = 1 \/ ~IsCased(s[i - 1]) THEN UpperChar(s[i]) ELSE LowerChar(s[i])]

\* str.strip()
Strip(s) ==
    LET keep == {i \in 1..Len(s) : s[i] \notin Whitespace}
    IN  IF keep = {} THEN <<>>
        ELSE LET lo == CHOOSE i \in keep : \A j \in keep : i <= j
                 hi == CHOOSE i \in keep : \A j \in keep : j <= i
             IN  SubSeq(s, lo, hi)

\* str.startswith(prefix)
StartsWith(s, prefix) ==
    /\ Len(prefix) <= Len(s)
    /\ SubSeq(s, 1, Len(prefix)) = prefix

\* str.startswith(tuple of prefixes)
StartsWithAny(s, prefixes) == \E p \in prefixes : StartsWith(s, p)

\* sub in s, for strings
IsSubstring(sub, s) ==
    \E i \in 1..(Len(s) - Len(sub) + 1) : SubSeq(s, i, i + Len(sub) - 1) = sub

\* str.replace(tag, "", 1)
RECURSIVE ReplaceFirst(_, _)
ReplaceFirst(s, tag) ==
    IF tag = <<>> \/ Len(s) < Len(tag) THEN s
    ELSE IF StartsWith(s, tag)
         THEN SubSeq(s, Len(tag) + 1, Len(s))
         ELSE <<s[1]>> \o ReplaceFirst(Tail(s), tag)

\* str.replace(tag, ""): the occurrences of tag are found left to right, each
\* search resuming after the occurrence just removed; one pass.
RECURSIVE Replace(_, _)
Replace(s, tag) ==
    IF tag = <<>> \/ Len(s) < Len(tag) THEN s
    ELSE IF StartsWith(s, tag)
         THEN Replace(SubSeq(s, Len(tag) + 1, Len(s)), tag)
         ELSE <<s[1]>> \o Replace(Tail(s), tag)

\* The characters of s as one TLA+ string.
RECURSIVE Join(_)
Join(s) == IF s = <<>> THEN "" ELSE s[1] \o Join(Tail(s))

\* The concatenation of a sequence of strings.
RECURSIVE Concat(_)
Concat(ss) == IF ss = <<>> THEN <<>> ELSE ss[1] \o Concat(Tail(ss))

\* The sequences over S of length at most n.
SeqUpTo(S, n) == UNION {[1..k -> S] : k \in 0..n}

-----------------------------------------------------------------------------
(* WebAudioManager                                                         *)

base_audio_url == "https://media.merriam-webster.com/audio/prons/en/us/mp3/"

BixPrefixes == {<<"_">>, <<".">>, <<"!">>, <<"?">>, <<",">>}

DigitPrefixes == {<<Digits[i]>> : i \in DOMAIN Digits}

get_audio_subdirectory_gg_first(filename) ==
    IF filename = <<>> THEN <<"b","i","x">>
    ELSE IF StartsWith(filename, <<"g","g">>) THEN <<"g","g">>
    ELSE IF StartsWithAny(filename, BixPrefixes) THEN <<"b","i","x">>
    ELSE IF StartsWithAny(filename, DigitPrefixes) THEN <<"n","u","m","b","e","r">>
    ELSE <<filename[1]>>

get_audio_subdirectory(filename) ==
    IF filename = <<>> THEN <<"b","i","x">>
    ELSE IF StartsWithAny(filename, DigitPrefixes) THEN <<"n","u","m","b","e","r">>
    ELSE IF StartsWithAny(filename, BixPrefixes) THEN <<"b","i","x">>
    ELSE IF StartsWith(filename, <<"g","g">>) THEN <<"g","g">>
    ELSE <<LowerChar(filename[1])>>

\* The audio_info of one "prs" item whose sound.audio is audio_filename;
\* an empty filename makes no record.
AudioInfoOf(filename) ==
    IF filename = <<>> THEN [made |-> FALSE, url |-> ""]
    ELSE LET subdirectory == get_audio_subdirectory(filename)
         IN  [made |-> TRUE,
              url |-> base_audio_url \o Join(subdirectory) \o "/"
                        \o Join(filename) \o ".mp3"]

MaxNameLen == 2

FilenameChars == {"g", "G", "c", "C", "7", "0", "_", ".", "!", "?", ",", "-"}

Filenames == SeqUpTo(FilenameChars, MaxNameLen)

\* One "prs" item with this sound.audio is resolved.
ResolveAudio ==
    /\ audio_info = NotYet
    /\ audio_subdirectory' = Str(get_audio_subdirectory(audio_filename))
    /\ audio_info' = AudioInfoOf(audio_filename)
    /\ UNCHANGED <<audio_filename, not_audio>>

-----------------------------------------------------------------------------
(* The tag stripping of process_dictionary_response                        *)

EtymologyTags ==
    << <<"{","i","t","}">>, <<"{","/","i","t","}">>,
       <<"{","e","t","_","l","i","n","k","|">>, <<"|","}">> >>

DefinitionTags ==
    << <<"{","b","c","}">>, <<"{","s","x","|">>, <<"|","}">>,
       <<"{","a","_","l","i","n","k","|">>, <<"}">> >>

ExampleTags ==
    << <<"{","w","i","}">>, <<"{","/","w","i","}">>,
       <<"{","i","t","}">>, <<"{","/","i","t","}">> >>

Sites == {"etymology", "definitions", "examples"}

TagsOf(site) ==
    CASE site = "etymology" -> EtymologyTags
      [] site = "definitions" -> DefinitionTags
      [] site = "examples" -> ExampleTags

\* for tag in tags: text = text.replace(tag, "")
RECURSIVE RemoveTags(_, _)
RemoveTags(text, tags) ==
    IF tags = <<>> THEN text
    ELSE RemoveTags(Replace(text, Head(tags)), Tail(tags))

StripTagsNoTrim(site, text) == RemoveTags(text, TagsOf(site))

StripTags(site, text) == Strip(RemoveTags(text, TagsOf(site)))

\* A text is made of whole tags of its call site and of characters that
\* begin or end no tag.
TagChars == {"{", "}", "|"}

RECURSIVE IsUnnested(_, _)
IsUnnested(site, text) ==
    \/ text = <<>>
    \/ /\ text[1] \notin TagChars
       /\ IsUnnested(site, Tail(text))
    \/ \E i \in DOMAIN TagsOf(site) :
          /\ StartsWith(text, TagsOf(site)[i])
          /\ IsUnnested(site, SubSeq(text, Len(TagsOf(site)[i]) + 1, Len(text)))

ContainsTag(site, text) ==
    \E i \in DOMAIN TagsOf(site) : IsSubstring(TagsOf(site)[i], text)

MaxPieces == 3

\* The pieces the raw texts are put together from: whole tags, parts of
\* tags, plain characters and white space.
Pieces ==
    { <<"{","i","t","}">>, <<"{","/","i","t","}">>, <<"|","}">>, <<"}">>,
      <<"{","s","x","|">>, <<"{","b","c","}">>, <<"{","w","i","}">>,
      <<"{","e","t","_","l","i","n","k","|">>,
      <<"{">>, <<"|">>, <<"i","t","}">>, <<"s","x","|">>, <<"a">>, <<" ">> }

RawTexts == {Concat(ps) : ps \in SeqUpTo(Pieces, MaxPieces)}

\* The parser strips a raw field.
StripField ==
    /\ strip_once = NotYet
    /\ strip_once' = Str(StripTags(strip_site, strip_text))
    /\ UNCHANGED <<strip_site, strip_text, strip_twice, not_strip>>

\* The stripped text is stripped again.
StripAgain ==
    /\ strip_once # NotYet
    /\ strip_twice = NotYet
    /\ strip_twice' = Str(StripTags(strip_site, strip_once.v))
    /\ UNCHANGED <<strip_site, strip_text, strip_once, not_strip>>

-----------------------------------------------------------------------------
(* check_quiz_answer                                                       *)

OPTION == <<"O","P","T","I","O","N">>

DigitValue(c) == IndexIn(c, Digits) - 1

IsDigit(c) == IndexIn(c, Digits) # 0

RECURSIVE DecimalValue(_)
DecimalValue(ds) ==
    IF ds = <<>> THEN 0
    ELSE 10 * DecimalValue(SubSeq(ds, 1, Len(ds) - 1)) + DigitValue(ds[Len(ds)])

\* int(s): white space around the number is skipped, one sign is allowed,
\* and at least one digit must follow; anything else is a ValueError.
ParseInt(s) ==
    LET body == Strip(s)
        signed == body # <<>> /\ body[1] \in {"+", "-"}
        ds == IF signed THEN Tail(body) ELSE body
    IN  IF ds # <<>> /\ \A i \in DOMAIN ds : IsDigit(ds[i])
        THEN [ok |-> TRUE,
              value |-> IF signed /\ body[1] = "-"
                        THEN 0 - DecimalValue(ds) ELSE DecimalValue(ds)]
        ELSE [ok |-> FALSE, value |-> 0]

check_quiz_answer_off_by_one(data) ==
    LET selected_option == data.selected_option
        correct_answer_ref == Strip(Upper(data.correct_answer))
        number == ParseInt(Replace(correct_answer_ref, OPTION))
        option_number == number.value
        options == data.options
        correct_option_text ==
            IF StartsWith(correct_answer_ref, OPTION)
            THEN IF number.ok
                 THEN IF 0 <= option_number /\ option_number < Len(options)
                      THEN options[option_number + 1]
                      ELSE selected_option
                 ELSE selected_option
            ELSE correct_answer_ref
    IN  [is_correct |->
            Lower(Strip(selected_option)) = Lower(Strip(correct_option_text)),
         correct_answer |-> correct_option_text]

check_quiz_answer(data) ==
    LET selected_option == data.selected_option
        correct_answer_ref == Strip(Upper(data.correct_answer))
        number == ParseInt(Replace(correct_answer_ref, OPTION))
        option_number == number.value - 1
        options == data.options
        correct_option_text ==
            IF StartsWith(correct_answer_ref, OPTION)
            THEN IF number.ok
                 THEN IF 0 <= option_number /\ option_number < Len(options)
                      THEN options[option_number + 1]
                      ELSE selected_option
                 ELSE selected_option
            ELSE correct_answer_ref
    IN  [is_correct |->
            Lower(Strip(selected_option)) = Lower(Strip(correct_option_text)),
         correct_answer |-> correct_option_text]

MaxOptions == 3

OptionTexts == << <<"x">>, <<"Y"," ">>, <<"p","a","r","i","s">>, <<"z">> >>

\* The options arrays of the requests: the first n option texts.
OptionLists == {SubSeq(OptionTexts, 1, n) : n \in 0..MaxOptions}

SelectedOptions ==
    { <<"x">>, <<" ","y">>, <<"Y">>, <<"P","a","r","i","s"," ">>, <<"z">>,
      <<"o","p","t","i","o","n","9">>, <<>> }

CorrectAnswers ==
    { <<"O","P","T","I","O","N","1">>, <<"o","p","t","i","o","n","2">>,
      <<" ","O","p","t","i","o","n","3"," ">>, <<"O","P","T","I","O","N","4">>,
      <<"O","P","T","I","O","N","9">>, <<"O","P","T","I","O","N","0">>,
      <<"O","P","T","I","O","N","-","1">>, <<"O","P","T","I","O","N"," ","2">>,
      <<"O","P","T","I","O","N","0","2">>, <<"O","P","T","I","O","N","1","0">>,
      <<"O","P","T","I","O","N">>, <<"O","P","T","I","O","N","A","L">>,
      <<"O","P","T","I","O","N","2","x">>,
      <<"2","O","P","T","I","O","N">>,
      <<"p","a","r","i","s">>, <<" ","Y">>, <<"x">>, <<"2">>, <<>> }

QuizRequests ==
    [selected_option : SelectedOptions,
     correct_answer : CorrectAnswers,
     options : OptionLists]

CheckQuizAnswer ==
    /\ quiz_response = NotYet
    /\ quiz_response' = check_quiz_answer(quiz_request)
    /\ UNCHANGED <<quiz_request, not_quiz>>


-----------------------------------------------------------------------------
(* The favorites collection and favorites.json                             *)

\* favorites.json: absent, a whole JSON document, or the beginning of one
\* (what a failed write leaves behind after open(..., 'w') truncated it).
NoFile == [exists |-> FALSE, complete |-> FALSE, doc |-> <<>>]

WholeFile(data) == [exists |-> TRUE, complete |-> TRUE, doc |-> data]

\* How the write of save_favorites can end for `data`: it succeeds, open()
\* raises and the file stays as it was, or the dump raises after `written`
\* entries.
WriteOutcomes(data) ==
    {[kind |-> "ok", written |-> Len(data)],
     [kind |-> "open_fails", written |-> 0]}
    \cup {[kind |-> "write_fails", written |-> k] : k \in 0..Len(data)}

save_favorites_unless_empty(data, file, outcome) ==
    IF data = <<>> THEN file
    ELSE CASE outcome.kind = "ok" -> WholeFile(data)
           [] outcome.kind = "open_fails" -> file
           [] outcome.kind = "write_fails" ->
                [exists |-> TRUE, complete |-> FALSE,
                 doc |-> SubSeq(data, 1, outcome.written)]

\* The exception of the write is caught and printed: the caller never sees it.
save_favorites(data, file, outcome) ==
    CASE outcome.kind = "ok" -> WholeFile(data)
      [] outcome.kind = "open_fails" -> file
      [] outcome.kind = "write_fails" ->
           [exists |-> TRUE, complete |-> FALSE,
            doc |-> SubSeq(data, 1, outcome.written)]

\* An absent file and a file json.load cannot read both give the empty list.
load_favorites(file) ==
    IF file.exists /\ file.complete THEN file.doc ELSE <<>>

\* any(fav["Word"].lower() == word.lower() for fav in favorites_data), which
\* stops at the first match and raises where fav has no "Word", or where
\* fav["Word"] or word is no string: "yes", "no" or "raise".
RECURSIVE AnyFavoriteMatches_exact(_, _)
AnyFavoriteMatches_exact(favs, word) ==
    IF favs = <<>> THEN "no"
    ELSE LET fav == Head(favs)
         IN  IF ~HasKey(fav, kWord) THEN "raise"
             ELSE IF Get(fav, kWord).t # "str" \/ word.t # "str" THEN "raise"
             ELSE IF Get(fav, kWord).v = word.v THEN "yes"
             ELSE AnyFavoriteMatches_exact(Tail(favs), word)

RECURSIVE AnyFavoriteMatches(_, _)
AnyFavoriteMatches(favs, word) ==
    IF favs = <<>> THEN "no"
    ELSE LET fav == Head(favs)
         IN  IF ~HasKey(fav, kWord) THEN "raise"
             ELSE IF Get(fav, kWord).t # "str" \/ word.t # "str" THEN "raise"
             ELSE IF Lower(Get(fav, kWord).v) = Lower(word.v) THEN "yes"
             ELSE AnyFavoriteMatches(Tail(favs), word)

\* [fav for fav in favorites_data if fav["Word"].lower() != word.lower()],
\* which reads every entry: the list, or "raise".
RECURSIVE FavoritesWithout(_, _)
FavoritesWithout(favs, word) ==
    IF favs = <<>> THEN List(<<>>)
    ELSE LET fav == Head(favs)
             rest == FavoritesWithout(Tail(favs), word)
         IN  IF ~HasKey(fav, kWord) THEN [t |-> "raise", v |-> <<>>]
             ELSE IF Get(fav, kWord).t # "str" THEN [t |-> "raise", v |-> <<>>]
             ELSE IF rest.t = "raise" THEN rest
             ELSE IF Lower(Get(fav, kWord).v) # Lower(word)
                  THEN List(<<fav>> \o rest.v)
                  ELSE rest

\* The outcome of a favorites request: the HTTP status, the "success" field,
\* the list it leaves, and whether it called save_favorites.
Outcome(status, success, favs, saved) ==
    [status |-> status, success |-> success, favorites |-> favs, saved |-> saved]

\* POST /api/favorites with body {"word_data": word_data}
add_favorite(favs, word_data) ==
    IF ~Truthy(word_data) THEN Outcome(400, FALSE, favs, FALSE)
    ELSE IF word_data.t # "dict" THEN Outcome(500, FALSE, favs, FALSE)
    ELSE LET word == IF HasKey(word_data, kWord)
                     THEN Get(word_data, kWord) ELSE Str(<<>>)
             found == AnyFavoriteMatches(favs, word)
         IN  CASE found = "raise" -> Outcome(500, FALSE, favs, FALSE)
               [] found = "no" -> Outcome(200, TRUE, Append(favs, word_data), TRUE)
               [] found = "yes" -> Outcome(200, FALSE, favs, FALSE)

\* DELETE /api/favorites/<word>
remove_favorite(favs, word) ==
    LET kept == FavoritesWithout(favs, word)
    IN  IF kept.t = "raise" THEN Outcome(500, FALSE, favs, FALSE)
        ELSE IF Len(kept.v) < Len(favs) THEN Outcome(200, TRUE, kept.v, TRUE)
        ELSE Outcome(200, FALSE, kept.v, FALSE)

\* DELETE /api/favorites/clear
clear_favorites(favs) == Outcome(200, TRUE, <<>>, TRUE)

MaxFavorites == 3

Cat == <<"C","a","t">>
cat == <<"c","a","t">>
CAT == <<"C","A","T">>
dog == <<"d","o","g">>

Entry(word, definition) ==
    Dict(<< <<kWord, Str(word)>>, <<kMain_Definition, Str(definition)>> >>)

\* The bodies of the add requests: entries for "cat" in three spellings
\* and for "dog", an entry with no "Word", one whose "Word" is a number,
\* and bodies that are empty, null or no object.
WordDatas ==
    { Entry(Cat, <<"a">>), Entry(cat, <<"b">>), Entry(CAT, <<"a">>),
      Entry(dog, <<"a">>),
      Dict(<< <<kMain_Definition, Str(<<"a">>)>> >>),
      Dict(<< <<kWord, Num(5)>> >>),
      Dict(<<>>), None, Str(cat) }

RemovedWords == {Cat, cat, dog, <<"o","x">>}

InitialFiles ==
    { NoFile, WholeFile(<<>>), WholeFile(<<Entry(Cat, <<"a">>)>>),
      [exists |-> TRUE, complete |-> FALSE, doc |-> <<>>] }

\* What the last request was and how it ended.
Last(op, arg, out, write) ==
    [op |-> op, arg |-> arg, status |-> out.status, success |-> out.success,
     saved |-> out.saved, write |-> write]

NoRequest ==
    [op |-> "none", arg |-> None, status |-> 0, success |-> FALSE,
     saved |-> FALSE, write |-> "none"]

\* A favorites request runs to its response; when it saves, the write ends
\* in one of its outcomes.
Respond(op, arg, out) ==
    IF out.saved
    THEN \E w \in WriteOutcomes(out.favorites) :
            /\ favorites_data' = out.favorites
            /\ favorites_file' = save_favorites(out.favorites, favorites_file, w)
            /\ fav_last' = Last(op, arg, out, w.kind)
    ELSE /\ favorites_data' = out.favorites
         /\ favorites_file' = favorites_file
         /\ fav_last' = Last(op, arg, out, "none")

AddFavorite ==
    /\ Len(favorites_data) < MaxFavorites
    /\ \E word_data \in WordDatas :
          Respond("add", word_data, add_favorite(favorites_data, word_data))
    /\ UNCHANGED not_fav

RemoveFavorite ==
    /\ \E word \in RemovedWords :
          Respond("remove", Str(word), remove_favorite(favorites_data, word))
    /\ UNCHANGED not_fav

ClearFavorites ==
    /\ Respond("clear", None, clear_favorites(favorites_data))
    /\ UNCHANGED not_fav

-----------------------------------------------------------------------------
(* Exceptions, and the operations of the parsers on values of any type     *)

\* An exception on its way up: "RequestException" (requests.exceptions) or
\* "Exception" (any other: TypeError, KeyError, IndexError, AttributeError).
Raise(exc) == [t |-> "raise", v |-> exc]

IsRaise(x) == x.t = "raise"

\* key in x: membership in a dict's keys or in a list, a substring test on
\* a str, a TypeError on anything else. "yes", "no" or "raise".
In(k, x) ==
    CASE x.t = "dict" -> IF HasKey(x, k) THEN "yes" ELSE "no"
      [] x.t = "list" -> IF \E i \in DOMAIN x.v : x.v[i] = Str(k) THEN "yes" ELSE "no"
      [] x.t = "str" -> IF IsSubstring(k, x.v) THEN "yes" ELSE "no"
      [] OTHER -> "raise"

\* x[key] for a string key: the value in a dict holding the key, a KeyError
\* or TypeError otherwise.
Subscript(x, k) ==
    IF IsRaise(x) THEN x
    ELSE IF x.t = "dict" /\ HasKey(x, k) THEN Get(x, k)
    ELSE Raise("Exception")

\* a in x and b in x[a]
InIn(x, a, b) ==
    IF In(a, x) # "yes" THEN In(a, x)
    ELSE IF IsRaise(Subscript(x, a)) THEN "raise"
    ELSE In(b, Subscript(x, a))

\* x[i] for an index i >= 0: an element of a list, a character of a str, an
\* IndexError past the end, a KeyError or TypeError on anything else.
At(x, i) ==
    IF IsRaise(x) THEN x
    ELSE IF x.t = "list" /\ i < Len(x.v) THEN x.v[i + 1]
    ELSE IF x.t = "str" /\ i < Len(x.v) THEN Str(<<x.v[i + 1]>>)
    ELSE Raise("Exception")

\* What `for item in x` goes through: the elements of a list, the
\* characters of a str, the keys of a dict; a TypeError on anything else.
Items(x) ==
    IF IsRaise(x) THEN x
    ELSE CASE x.t = "list" -> x
           [] x.t = "str" -> List([i \in 1..Len(x.v) |-> Str(<<x.v[i]>>)])
           [] x.t = "dict" -> List([i \in 1..Len(x.v) |-> Str(x.v[i][1])])
           [] OTHER -> Raise("Exception")

\* F(e), with e evaluated once: a local variable holding the value of e.
Once(e, F(_)) == CHOOSE y \in {F(x) : x \in {e}} : TRUE

\* The loop `for x in xs: out.extend(F(x))`, which an exception of F leaves.
RECURSIVE FlatMap(_, _)
FlatMap(F(_), xs) ==
    IF xs = <<>> THEN List(<<>>)
    ELSE Once(F(Head(xs)), LAMBDA first :
            IF IsRaise(first) THEN first
            ELSE Once(FlatMap(F, Tail(xs)), LAMBDA rest :
                    IF IsRaise(rest) THEN rest ELSE List(first.v \o rest.v)))

\* The same loop over whatever x is.
FlatMapItems(F(_), x) ==
    Once(Items(x), LAMBDA items :
        IF IsRaise(items) THEN items ELSE FlatMap(F, items.v))

\* sep.join(parts)
RECURSIVE JoinWith(_, _)
JoinWith(sep, parts) ==
    IF parts = <<>> THEN <<>>
    ELSE IF Len(parts) = 1 THEN parts[1]
    ELSE parts[1] \o sep \o JoinWith(sep, Tail(parts))

\* s.split(":")[0]
BeforeColon(s) ==
    IF \E i \in DOMAIN s : s[i] = ":"
    THEN SubSeq(s, 1, (CHOOSE i \in DOMAIN s :
                          s[i] = ":" /\ \A j \in 1..(i - 1) : s[j] # ":") - 1)
    ELSE s

RECURSIVE DecimalDigits(_)
DecimalDigits(n) ==
    IF n < 10 THEN <<Digits[n + 1]>>
    ELSE DecimalDigits(n \div 10) \o <<Digits[(n % 10) + 1]>>

\* f"{x}" for a str, a non-negative int or None (the values the modelled
\* responses put under "mw").
Format(x) ==
    CASE x.t = "str" -> x.v
      [] x.t = "int" -> DecimalDigits(x.v)
      [] OTHER -> <<"N","o","n","e">>

-----------------------------------------------------------------------------
(* WebAudioManager.extract_audio_info_from_api_response                    *)

\* The audio_info of one "prs" item of an entry, as a list of none or one.
PrsAudio(entry, prs) ==
    LET has == InIn(prs, ksound, kaudio)
        filename == Subscript(Subscript(prs, ksound), kaudio)
        meta == IF HasKey(entry, kmeta) THEN Get(entry, kmeta) ELSE Dict(<<>>)
    IN  CASE has = "raise" -> Raise("Exception")
          [] has = "no" -> List(<<>>)
          [] has = "yes" ->
               IF IsRaise(filename) THEN filename
               ELSE IF ~Truthy(filename) THEN List(<<>>)
               ELSE IF filename.t # "str" THEN Raise("Exception")
               ELSE IF meta.t # "dict" THEN Raise("Exception")
               ELSE List(<<[url |-> AudioInfoOf(filename.v).url,
                            filename |-> filename,
                            pronunciation |->
                                IF HasKey(prs, kmw) THEN Get(prs, kmw) ELSE Str(<<>>),
                            entry_id |->
                                IF HasKey(meta, kid) THEN Get(meta, kid) ELSE Str(<<>>)]>>)

EntryAudio(entry) ==
    IF entry.t # "dict" THEN List(<<>>)
    ELSE LET has == InIn(entry, khwi, kprs)
         IN  CASE has = "raise" -> Raise("Exception")
               [] has = "no" -> List(<<>>)
               [] has = "yes" ->
                    FlatMapItems(LAMBDA prs : PrsAudio(entry, prs),
                                 Subscript(Subscript(entry, khwi), kprs))

extract_audio_info_from_api_response(api_response) ==
    IF api_response.t # "list" \/ api_response.v = <<>> THEN List(<<>>)
    ELSE FlatMap(EntryAudio, api_response.v)

-----------------------------------------------------------------------------
(* WebAPIManager.process_dictionary_response                                *)

\* entry["meta"]["id"].split(":")[0].title(), or "" where there is no id
Headword(entry) ==
    LET has == InIn(entry, kmeta, kid)
        id == Subscript(Subscript(entry, kmeta), kid)
    IN  CASE has = "raise" -> Raise("Exception")
          [] has = "no" -> Str(<<>>)
          [] has = "yes" ->
               IF IsRaise(id) THEN id
               ELSE IF id.t # "str" THEN Raise("Exception")
               ELSE Str(Title(BeforeColon(id.v)))

\* entry["fl"], whatever it is, or ""
PartOfSpeech(entry) ==
    CASE In(kfl, entry) = "raise" -> Raise("Exception")
      [] In(kfl, entry) = "no" -> Str(<<>>)
      [] In(kfl, entry) = "yes" -> Subscript(entry, kfl)

PrsText(prs) ==
    CASE In(kmw, prs) = "raise" -> Raise("Exception")
      [] In(kmw, prs) = "no" -> List(<<>>)
      [] In(kmw, prs) = "yes" ->
           IF IsRaise(Subscript(prs, kmw)) THEN Subscript(prs, kmw)
           ELSE List(<< <<"/">> \o Format(Subscript(prs, kmw)) \o <<"/">> >>)

\* ", ".join of every "mw" under entry["hwi"]["prs"], each in slashes
Pronunciation(entry) ==
    LET has == InIn(entry, khwi, kprs)
        pronunciations ==
            FlatMapItems(PrsText, Subscript(Subscript(entry, khwi), kprs))
    IN  CASE has = "raise" -> Raise("Exception")
          [] has = "no" -> Str(<<>>)
          [] has = "yes" ->
               IF IsRaise(pronunciations) THEN pronunciations
               ELSE Str(JoinWith(<<",", " ">>, pronunciations.v))

EtText(et_item) ==
    IF et_item.t = "list" /\ Len(et_item.v) > 1
    THEN IF et_item.v[1] = Str(ktext)
         THEN IF et_item.v[2].t # "str" THEN Raise("Exception")
              ELSE List(<<StripTags("etymology", et_item.v[2].v)>>)
         ELSE List(<<>>)
    ELSE List(<<>>)

\* " ".join of every ["text", ...] item of entry["et"], stripped
Etymology(entry) ==
    LET etymology_parts == FlatMapItems(EtText, Subscript(entry, ket))
    IN  CASE In(ket, entry) = "raise" -> Raise("Exception")
          [] In(ket, entry) = "no" -> Str(<<>>)
          [] In(ket, entry) = "yes" ->
               IF IsRaise(etymology_parts) THEN etymology_parts
               ELSE Str(JoinWith(<<" ">>, etymology_parts.v))

\* What the walk of entry["def"] appends, in order: to "definitions" or to
\* "examples".
Appended(field, text) == [field |-> field, text |-> Str(text)]

VisOut(vis_item) ==
    CASE In(kt, vis_item) = "raise" -> Raise("Exception")
      [] In(kt, vis_item) = "no" -> List(<<>>)
      [] In(kt, vis_item) = "yes" ->
           LET example == Subscript(vis_item, kt)
           IN  IF IsRaise(example) THEN example
               ELSE IF example.t # "str" THEN Raise("Exception")
               ELSE List(<<Appended("examples", StripTags("examples", example.v))>>)

DtOut(dt_item) ==
    LET kind == At(dt_item, 0)
        second == At(dt_item, 1)
    IN  IF IsRaise(kind) THEN kind
        ELSE IF kind = Str(ktext)
        THEN IF IsRaise(second) THEN second
             ELSE IF second.t # "str" THEN Raise("Exception")
             ELSE List(<<Appended("definitions", StripTags("definitions", second.v))>>)
        ELSE IF kind = Str(kvis)
        THEN IF IsRaise(second) THEN second
             ELSE FlatMapItems(VisOut, second)
        ELSE List(<<>>)

SenseOut(sense) ==
    IF sense.t = "list" /\ Len(sense.v) > 1
    THEN IF sense.v[2].t = "dict" /\ HasKey(sense.v[2], kdt)
         THEN FlatMapItems(DtOut, Get(sense.v[2], kdt))
         ELSE List(<<>>)
    ELSE List(<<>>)

SenseSequenceOut(sense_sequence) == FlatMapItems(SenseOut, sense_sequence)

DefinitionGroupOut(definition_group) ==
    CASE In(ksseq, definition_group) = "raise" -> Raise("Exception")
      [] In(ksseq, definition_group) = "no" -> List(<<>>)
      [] In(ksseq, definition_group) = "yes" ->
           FlatMapItems(SenseSequenceOut, Subscript(definition_group, ksseq))

DefOut(entry) ==
    CASE In(kdef, entry) = "raise" -> Raise("Exception")
      [] In(kdef, entry) = "no" -> List(<<>>)
      [] In(kdef, entry) = "yes" ->
           FlatMapItems(DefinitionGroupOut, Subscript(entry, kdef))

\* The texts appended to one field, in order.
RECURSIVE FieldOf(_, _)
FieldOf(field, out) ==
    IF out = <<>> THEN <<>>
    ELSE IF Head(out).field = field
         THEN <<Head(out).text>> \o FieldOf(field, Tail(out))
         ELSE FieldOf(field, Tail(out))

\* for short_def in shortdefs: append it unless it is there already
RECURSIVE AppendNew(_, _)
AppendNew(definitions, shortdefs) ==
    IF shortdefs = <<>> THEN definitions
    ELSE AppendNew(
            IF \E i \in DOMAIN definitions : definitions[i] = Head(shortdefs)
            THEN definitions ELSE Append(definitions, Head(shortdefs)),
            Tail(shortdefs))

ShortDefs(entry) ==
    CASE In(kshortdef, entry) = "raise" -> Raise("Exception")
      [] In(kshortdef, entry) = "no" -> List(<<>>)
      [] In(kshortdef, entry) = "yes" -> Items(Subscript(entry, kshortdef))

\* The entry_data of one entry, as a list of one; or the exception that
\* one of its fields raised.
EntryData(entry) ==
    LET headword == Headword(entry)
        part_of_speech == PartOfSpeech(entry)
        pronunciation == Pronunciation(entry)
        etymology == Etymology(entry)
        out == DefOut(entry)
        shortdefs == ShortDefs(entry)
    IN  IF \/ IsRaise(headword) \/ IsRaise(part_of_speech)
           \/ IsRaise(pronunciation) \/ IsRaise(etymology)
           \/ IsRaise(out) \/ IsRaise(shortdefs)
        THEN Raise("Exception")
        ELSE List(<<[headword |-> headword,
                     part_of_speech |-> part_of_speech,
                     pronunciation |-> pronunciation,
                     etymology |-> etymology,
                     definitions |->
                         AppendNew(FieldOf("definitions", out.v), shortdefs.v),
                     examples |-> FieldOf("examples", out.v)]>>)

\* The word_data of a non-empty list of entries, or the exception raised on
\* the way.
process_dictionary_response(data, word) ==
    Once(FlatMap(EntryData, data.v), LAMBDA all_entries :
    Once(extract_audio_info_from_api_response(data), LAMBDA audio_files :
        IF IsRaise(all_entries) THEN all_entries
        ELSE IF IsRaise(audio_files) THEN audio_files
        ELSE LET first_entry == all_entries.v[1]
             IN  [t |-> "word_data",
                  Word |-> IF first_entry.headword.v # <<>>
                           THEN first_entry.headword ELSE Str(Title(word)),
                  Dictionary_Data |-> all_entries.v,
                  Part_of_Speech |-> first_entry.part_of_speech,
                  Main_Definition |->
                      IF first_entry.definitions # <<>>
                      THEN first_entry.definitions[1] ELSE Str(<<>>),
                  Main_Example |->
                      IF first_entry.examples # <<>>
                      THEN first_entry.examples[1] ELSE Str(<<>>),
                  Pronunciation |-> first_entry.pronunciation,
                  Audio_Files |-> audio_files.v]))

-----------------------------------------------------------------------------
(* WebAPIManager.process_thesaurus_response                                *)

\* for group in meta[key]: entry_data[attr].extend(group)
GroupWords(meta, key) ==
    CASE In(key, meta) = "raise" -> Raise("Exception")
      [] In(key, meta) = "no" -> List(<<>>)
      [] In(key, meta) = "yes" -> FlatMapItems(Items, Subscript(meta, key))

ThesaurusEntry(entry) ==
    LET headword == Headword(entry)
        part_of_speech == PartOfSpeech(entry)
        meta == Subscript(entry, kmeta)
        Group(key) ==
            CASE In(kmeta, entry) = "raise" -> Raise("Exception")
              [] In(kmeta, entry) = "no" -> List(<<>>)
              [] In(kmeta, entry) = "yes" ->
                   IF IsRaise(meta) THEN meta ELSE GroupWords(meta, key)
    IN  IF \/ IsRaise(headword) \/ IsRaise(part_of_speech)
           \/ IsRaise(Group(ksyns)) \/ IsRaise(Group(kants))
           \/ IsRaise(Group(krel)) \/ IsRaise(Group(knear))
        THEN Raise("Exception")
        ELSE List(<<[headword |-> headword,
                     part_of_speech |-> part_of_speech,
                     synonyms |-> Group(ksyns).v,
                     antonyms |-> Group(kants).v,
                     related_words |-> Group(krel).v,
                     near_antonyms |-> Group(knear).v]>>)

process_thesaurus_response(data, word) == FlatMap(ThesaurusEntry, data.v)

-----------------------------------------------------------------------------
(* The remote calls and WebAPIManager.get_word_data                        *)

\* What session.get gives: it raises (a connection error, a timeout), or
\* it returns a response with a status and a body.
Raises == [kind |-> "raises", status |-> 0, body |-> None]

Http(status, body) == [kind |-> "http", status |-> status, body |-> body]

\* The call was not made.
NotCalled == [kind |-> "notcalled", status |-> 0, body |-> None]

\* A body response.json() cannot decode.
InvalidJson == [t |-> "invalid", v |-> 0]

ErrorResult(error, word) ==
    [t |-> "error", error |-> error, word |-> Str(word), suggestions |-> None]

NotFoundWithSuggestions(word, suggestions) ==
    [t |-> "error", error |-> "word_not_found", word |-> Str(word),
     suggestions |-> List(suggestions)]

Min(a, b) == IF a < b THEN a ELSE b

\* Every exception of the request, of the decoding and of the parsing is
\* caught here and answered with api_error.
get_dictionary_data(word, response) ==
    IF response.kind = "raises" THEN ErrorResult("api_error", word)
    ELSE IF response.status = 200
    THEN LET data == response.body
         IN  IF data.t = "invalid" THEN ErrorResult("api_error", word)
             ELSE IF data.t = "list" /\ Len(data.v) > 0
             THEN IF data.v[1].t = "str"
                  THEN NotFoundWithSuggestions(word, SubSeq(data.v, 1, Min(5, Len(data.v))))
                  ELSE Once(process_dictionary_response(data, word),
                            LAMBDA word_data :
                                IF IsRaise(word_data)
                                THEN ErrorResult("api_error", word)
                                ELSE word_data)
             ELSE ErrorResult("word_not_found", word)
    ELSE ErrorResult("api_error", word)

\* The value of "Thesaurus_Data" where there are no entries.
Marker(text) == [t |-> "marker", v |-> text]

\* The dict get_thesaurus_data returns.
ThesaurusResult(data) == [t |-> "thesaurus", Thesaurus_Data |-> data]

get_thesaurus_data_uncaught(word, response) ==
    IF response.kind = "raises" THEN Raise("RequestException")
    ELSE IF response.status = 200
    THEN LET data == response.body
         IN  IF data.t = "invalid" THEN Raise("RequestException")
             ELSE IF data.t = "list" /\ Len(data.v) > 0 /\ data.v[1].t # "str"
             THEN Once(process_thesaurus_response(data, word),
                       LAMBDA thesaurus_entries :
                           IF IsRaise(thesaurus_entries)
                           THEN Raise("Exception")
                           ELSE ThesaurusResult(thesaurus_entries))
             ELSE ThesaurusResult(Marker("No thesaurus data available"))
    ELSE ThesaurusResult(Marker("No thesaurus data available"))

get_thesaurus_data(word, response) ==
    IF response.kind = "raises"
    THEN ThesaurusResult(Marker("Thesaurus data unavailable"))
    ELSE IF response.status = 200
    THEN LET data == response.body
         IN  IF data.t = "invalid"
             THEN ThesaurusResult(Marker("Thesaurus data unavailable"))
             ELSE IF data.t = "list" /\ Len(data.v) > 0 /\ data.v[1].t # "str"
             THEN Once(process_thesaurus_response(data, word),
                       LAMBDA thesaurus_entries :
                           IF IsRaise(thesaurus_entries)
                           THEN ThesaurusResult(Marker("Thesaurus data unavailable"))
                           ELSE ThesaurusResult(thesaurus_entries))
             ELSE ThesaurusResult(Marker("No thesaurus data available"))
    ELSE ThesaurusResult(Marker("No thesaurus data available"))

\* The placeholder of translate_to_turkish. The source's text is Turkish
\* ("translation not found"); its two non-ASCII letters are written in
\* ASCII here.
TranslationNotFound ==
    Str(<<"C","e","v","i","r","i"," ","b","u","l","u","n","a","m","a","d","i">>)

\* The translator returns a text or raises.
Translated(text) == [kind |-> "ok", text |-> Str(text)]

TranslatorRaises == [kind |-> "raises", text |-> None]

translate_to_turkish(text, outcome) ==
    IF outcome.kind = "raises" THEN TranslationNotFound ELSE outcome.text

\* The cache: the items <<word, object identity>> of a dict.
CacheHas(c, word) == \E i \in DOMAIN c : c[i][1] = word

CacheGet(c, word) == c[CHOOSE i \in DOMAIN c : c[i][1] = word][2]

CachePut(c, word, id) ==
    IF CacheHas(c, word)
    THEN [i \in DOMAIN c |-> IF c[i][1] = word THEN <<word, id>> ELSE c[i]]
    ELSE Append(c, <<word, id>>)

\* A result that is an object of the heap: returned by reference.
Object(id) == [t |-> "object", id |-> id]

NormalizeWord_no_lower(word) == Strip(word)

NormalizeWord_no_strip(word) == Lower(word)

\* word.lower().strip()
NormalizeWord(word) == Strip(Lower(word))

\* What one call of get_word_data returns and leaves behind, and the remote
\* calls it made, in order.
Returned(result, c, h, calls, dict_data) ==
    [result |-> result, cache |-> c, heap |-> h, calls |-> calls,
     dict_data |-> dict_data]

\* except requests.exceptions.RequestException / except Exception
Handler(exc, word) ==
    IF exc = "RequestException"
    THEN [t |-> "error", error |-> "network_error", word |-> Str(word),
          suggestions |-> None]
    ELSE [t |-> "error", error |-> "unknown_error", word |-> Str(word),
          suggestions |-> None]

\* dict_data.copy(), updated with thesaurus_data and the translation
Combined(dict_data, thesaurus_data, translation) ==
    [t |-> "word_data",
     Word |-> dict_data.Word,
     Dictionary_Data |-> dict_data.Dictionary_Data,
     Part_of_Speech |-> dict_data.Part_of_Speech,
     Main_Definition |-> dict_data.Main_Definition,
     Main_Example |-> dict_data.Main_Example,
     Pronunciation |-> dict_data.Pronunciation,
     Audio_Files |-> dict_data.Audio_Files,
     Thesaurus_Data |-> thesaurus_data.Thesaurus_Data,
     Turkish_Translation |-> translation]

get_word_data_eager(c, h, raw_word, dict_response, thesaurus_response, translation) ==
    Once(NormalizeWord(raw_word), LAMBDA word :
    Once(get_dictionary_data(word, dict_response), LAMBDA dict_data :
    Once(get_thesaurus_data(word, thesaurus_response), LAMBDA thesaurus_data :
        IF CacheHas(c, word)
        THEN Returned(Object(CacheGet(c, word)), c, h, <<>>, NotYet)
        ELSE IF IsRaise(dict_data)
        THEN Returned(Handler(dict_data.v, word), c, h, <<"dictionary">>, dict_data)
        ELSE IF IsRaise(thesaurus_data)
        THEN Returned(Handler(thesaurus_data.v, word), c, h,
                      <<"dictionary", "thesaurus">>, dict_data)
        ELSE IF dict_data.t = "error"
        THEN Returned(dict_data, c, h, <<"dictionary", "thesaurus">>, dict_data)
        ELSE Returned(Object(Len(h) + 1),
                      CachePut(c, word, Len(h) + 1),
                      Append(h, Combined(dict_data, thesaurus_data,
                                         translate_to_turkish(word, translation))),
                      <<"dictionary", "thesaurus", "translation">>, dict_data))))

get_word_data(c, h, raw_word, dict_response, thesaurus_response, translation) ==
    Once(NormalizeWord(raw_word), LAMBDA word :
        IF CacheHas(c, word)
        THEN Returned(Object(CacheGet(c, word)), c, h, <<>>, NotYet)
        ELSE Once(get_dictionary_data(word, dict_response), LAMBDA dict_data :
            IF IsRaise(dict_data)
            THEN Returned(Handler(dict_data.v, word), c, h, <<"dictionary">>, dict_data)
            ELSE IF dict_data.t = "error"
            THEN Returned(dict_data, c, h, <<"dictionary">>, dict_data)
            ELSE Once(get_thesaurus_data(word, thesaurus_response),
                      LAMBDA thesaurus_data :
                IF IsRaise(thesaurus_data)
                THEN Returned(Handler(thesaurus_data.v, word), c, h,
                              <<"dictionary", "thesaurus">>, dict_data)
                ELSE Returned(Object(Len(h) + 1),
                              CachePut(c, word, Len(h) + 1),
                              Append(h, Combined(dict_data, thesaurus_data,
                                         translate_to_turkish(word, translation))),
                              <<"dictionary", "thesaurus", "translation">>,
                              dict_data))))

-----------------------------------------------------------------------------
(* The responses of the vendor APIs                                        *)

\* A "text" item and a "vis" item of a sense's "dt", as the vendor sends
\* them.
TextItem == List(<<Str(ktext), Str(<<"{","b","c","}","a"," ","p","e","t"," ">>)>>)

VisItem ==
    List(<<Str(kvis),
           List(<<Dict(<< <<kt, Str(<<"{","w","i","}","c","a","t","{","/","w","i","}">>)>> >>)>>)>>)

\* entry["def"] with one sense whose "dt" is dt
DefOf(dt) ==
    List(<<Dict(<< <<ksseq,
        List(<<List(<<List(<<Str(<<"s","e","n","s","e">>),
                             Dict(<< <<kdt, dt>> >>)>>)>>)>>)>> >>)>>)

GoodMeta == Dict(<< <<kid, Str(<<"c","a","t",":","1">>)>> >>)

GoodPrs ==
    List(<<Dict(<< <<kmw, Str(<<"k","a","t">>)>>,
                   <<ksound, Dict(<< <<kaudio, Str(<<"c","a","t","0","1">>)>> >>)>> >>)>>)

\* An entry with every field the parser reads.
GoodEntry ==
    Dict(<< <<kmeta, GoodMeta>>,
            <<kfl, Str(<<"n","o","u","n">>)>>,
            <<khwi, Dict(<< <<kprs, GoodPrs>> >>)>>,
            <<ket, List(<<List(<<Str(ktext),
                                 Str(<<"{","i","t","}","c","a","t","t","{","/","i","t","}">>)>>)>>)>>,
            <<kdef, DefOf(List(<<TextItem, VisItem>>))>>,
            <<kshortdef, List(<<Str(<<"a"," ","p","e","t">>)>>)>> >>)

\* An entry with an id and one more field.
EntryWith(key, value) == Dict(<< <<kmeta, GoodMeta>>, <<key, value>> >>)

\* The items a "dt" list is put together from: well-formed ones, and
\* malformed ones (an empty item, an item with no second element, an item
\* that is no list, a text that is no string, a "vis" whose examples are no
\* objects or no list, an item of a kind the parser skips).
DtItems ==
    { TextItem, VisItem,
      List(<<>>), List(<<Str(ktext)>>), Num(5), Str(<<>>), Str(ktext),
      List(<<Str(ktext), Num(5)>>),
      List(<<Str(kvis), List(<<Num(5)>>)>>),
      List(<<Str(kvis), List(<<Str(ktext)>>)>>),
      List(<<Str(kvis), Num(5)>>),
      List(<<Str(kvis), List(<<Dict(<<>>)>>)>>),
      List(<<Str(<<"b","n","w">>), Dict(<<>>)>>) }

MaxDt == 2

\* The values of a sense's "dt": lists of items, and values that are no list.
DtValues ==
    {List(items) : items \in SeqUpTo(DtItems, MaxDt)}
    \cup {Num(5), None, Str(<<"a","b">>), Dict(<<>>)}

\* Entries with one field missing or malformed outside "dt".
OtherEntries ==
    { GoodEntry, Num(5), None, Str(kmeta), Str(<<"a">>), List(<<>>), Dict(<<>>),
      EntryWith(kfl, Num(5)),
      Dict(<< <<kmeta, Num(5)>> >>),
      Dict(<< <<kmeta, Dict(<<>>)>> >>),
      Dict(<< <<kmeta, Dict(<< <<kid, Num(5)>> >>)>> >>),
      Dict(<< <<kmeta, Str(kid)>> >>),
      EntryWith(khwi, Num(5)),
      EntryWith(khwi, Dict(<<>>)),
      EntryWith(khwi, Dict(<< <<kprs, Num(5)>> >>)),
      EntryWith(khwi, Dict(<< <<kprs, List(<<Num(5)>>)>> >>)),
      EntryWith(khwi, Dict(<< <<kprs, List(<<Dict(<<>>)>>)>> >>)),
      EntryWith(khwi, Dict(<< <<kprs, List(<<Dict(<< <<kmw, Num(5)>>,
                  <<ksound, Dict(<< <<kaudio, Str(<<>>)>> >>)>> >>)>>)>> >>)),
      EntryWith(khwi, Dict(<< <<kprs, List(<<Dict(<<
                  <<ksound, Dict(<< <<kaudio, Num(5)>> >>)>> >>)>>)>> >>)),
      EntryWith(khwi, Dict(<< <<kprs, List(<<Dict(<< <<ksound, Num(5)>> >>)>>)>> >>)),
      Dict(<< <<kmeta, Str(<<"x">>)>>, <<khwi, Dict(<< <<kprs, GoodPrs>> >>)>> >>),
      EntryWith(ket, Num(5)),
      EntryWith(ket, List(<<Num(5)>>)),
      EntryWith(ket, List(<<List(<<Str(ktext), Num(5)>>)>>)),
      EntryWith(ket, List(<<List(<<Str(ktext)>>)>>)),
      EntryWith(kdef, Num(5)),
      EntryWith(kdef, List(<<Num(5)>>)),
      EntryWith(kdef, List(<<Dict(<<>>)>>)),
      EntryWith(kdef, List(<<Dict(<< <<ksseq, Num(5)>> >>)>>)),
      EntryWith(kdef, List(<<Dict(<< <<ksseq, List(<<Num(5)>>)>> >>)>>)),
      EntryWith(kdef, List(<<Dict(<< <<ksseq, List(<<List(<<Num(5)>>)>>)>> >>)>>)),
      EntryWith(kdef, List(<<Dict(<< <<ksseq,
                  List(<<List(<<List(<<Str(<<"s","e","n","s","e">>), Num(5)>>)>>)>>)>> >>)>>)),
      EntryWith(kshortdef, Num(5)),
      EntryWith(kshortdef, List(<<Num(5), Str(<<"a">>), Str(<<"a">>)>>)) }

DictionaryEntries ==
    {EntryWith(kdef, DefOf(dt)) : dt \in DtValues} \cup OtherEntries

Suggestions == List(<<Str(<<"c","a","r","t">>), Str(<<"c","o","t">>)>>)

SixSuggestions ==
    List(<<Str(<<"a">>), Str(<<"b">>), Str(<<"c">>), Str(<<"d">>), Str(<<"e">>),
           Str(<<"f">>)>>)

\* What the dictionary API can answer, apart from a list of entries.
OtherDictionaryResponses ==
    { Raises, Http(500, None), Http(404, List(<<GoodEntry>>)),
      Http(200, InvalidJson), Http(200, List(<<>>)), Http(200, Dict(<<>>)),
      Http(200, None), Http(200, Suggestions), Http(200, SixSuggestions) }

\* The dictionary responses handed to the parser: one entry of any shape,
\* a good entry followed by one of any other shape, and the rest.
ParseResponses ==
    {Http(200, List(<<e>>)) : e \in DictionaryEntries}
    \cup {Http(200, List(<<GoodEntry, e>>)) : e \in OtherEntries}
    \cup OtherDictionaryResponses

\* The dictionary responses of the lookups that fill the cache: a failure
\* of each kind, and entries.
DictionaryResponses ==
    { Raises, Http(500, None), Http(200, Suggestions),
      Http(200, List(<<GoodEntry>>)) }

GoodThesaurusEntry ==
    Dict(<< <<kmeta, Dict(<< <<kid, Str(<<"c","a","t">>)>>,
                             <<ksyns, List(<<List(<<Str(<<"k","i","t","t","y">>),
                                                    Str(<<"p","u","s","s">>)>>),
                                             List(<<Str(<<"t","o","m">>)>>)>>)>>,
                             <<kants, List(<<>>)>> >>)>>,
            <<kfl, Str(<<"n","o","u","n">>)>> >>)

\* The thesaurus responses: entries, every way of having none, and entries
\* the parser cannot read.
ThesaurusResponses ==
    { Raises, Http(404, None), Http(200, InvalidJson), Http(200, List(<<>>)),
      Http(200, Suggestions), Http(200, Dict(<<>>)), Http(200, None),
      Http(200, List(<<Num(5)>>)),
      Http(200, List(<<Dict(<<>>)>>)),
      Http(200, List(<<Dict(<< <<kmeta, Num(5)>> >>)>>)),
      Http(200, List(<<Dict(<< <<kmeta, Dict(<< <<ksyns, Num(5)>> >>)>> >>)>>)),
      Http(200, List(<<Dict(<< <<kmeta, Dict(<< <<ksyns, List(<<Num(5)>>)>> >>)>> >>)>>)),
      Http(200, List(<<GoodThesaurusEntry, Num(5)>>)),
      Http(200, List(<<GoodThesaurusEntry>>)) }

\* The thesaurus responses of the lookups that fill the cache.
LookupThesaurusResponses == { Raises, Http(200, List(<<GoodThesaurusEntry>>)) }

Translations == {Translated(<<"k","e","d","i">>), TranslatorRaises}

\* The words of the lookups: "cat" in three spellings, and "dog".
LookupWords == { cat, <<" ","C","a","t">>, <<"C","A","T"," ">>, dog }

\* Two words are the same when they agree after trimming and lowercasing.
SameWordKey(word) == Lower(Strip(word))

LookupKeys == {SameWordKey(w) : w \in LookupWords}

\* One lookup: get_word_data runs to its return; the remote calls it makes
\* are answered in any of the ways above.
Lookup ==
    /\ \E word \in LookupWords :
       \E d \in IF CacheHas(cache, NormalizeWord(word))
                THEN {NotCalled} ELSE DictionaryResponses :
       \E th \in IF d = NotCalled \/ get_dictionary_data(NormalizeWord(word), d).t = "error"
                 THEN {NotCalled} ELSE LookupThesaurusResponses :
       \E tr \in IF th = NotCalled THEN {TranslatorRaises} ELSE Translations :
       \E out \in {get_word_data(cache, heap, word, d, th, tr)} :
              /\ cache' = out.cache
              /\ heap' = out.heap
              /\ lookup_last' =
                    [word |-> word,
                     hit |-> CacheHas(cache, NormalizeWord(word)),
                     result |-> out.result,
                     calls |-> out.calls,
                     dict_data |-> out.dict_data,
                     previous |-> returned[SameWordKey(word)]]
              /\ returned' = [returned EXCEPT ![SameWordKey(word)] = out.result]
    /\ UNCHANGED not_lookup

\* One lookup of "cat" with an empty cache, the remote calls it makes being
\* answered by parse_response, parse_thesaurus and parse_translation.
ParseLookup ==
    /\ parse_result = NotYet
    /\ \E out \in {get_word_data(<<>>, <<>>, cat, parse_response,
                                   parse_thesaurus, parse_translation)} :
           parse_result' =
              [result |-> out.result,
               calls |-> out.calls,
               dict_data |-> out.dict_data,
               data |-> IF out.result.t = "object"
                        THEN out.heap[out.result.id] ELSE NotYet]
    /\ UNCHANGED <<parse_response, parse_thesaurus, parse_translation, not_parse>>

-----------------------------------------------------------------------------
(* Concurrent lookups: get_word_data called by several request threads     *)
(* that share one WebAPIManager. A thread can be descheduled between any   *)
(* two of its steps, and is while a remote call of its is in flight.       *)

MaxThreads == 3

Threads == 1..MaxThreads

\* The words of the concurrent lookups.
ThreadWords == { <<" ","C","a","t">>, dog }

\* What the remote calls of the concurrent lookups are answered with.
ThreadDictionaryResponses ==
    { Http(500, None), Http(200, List(<<EntryWith(kfl, Str(<<"n","o","u","n">>))>>)) }

ThreadThesaurusResponses == { Http(200, List(<<Dict(<<>>)>>)) }

ThreadTranslations == { Translated(<<"k","e","d","i">>) }

\* The locals of one call of get_word_data, where it stands (pc), and what
\* it has done: its remote calls, whether it wrote the cache, and what the
\* latest lookup of its word had returned when it began.
NoCall ==
    [pc |-> "idle", raw_word |-> <<>>, word |-> <<>>, dict_data |-> NotYet,
     thesaurus_data |-> NotYet, combined_data |-> 0, result |-> NotYet,
     calls |-> <<>>, stored |-> FALSE, previous |-> NotYet]

\* return result
Return(t, call, result) ==
    /\ threads' = [threads EXCEPT ![t] = [call EXCEPT !.pc = "done",
                                                      !.result = result]]
    /\ returned' = [returned EXCEPT ![SameWordKey(call.raw_word)] = result]

\* word = word.lower().strip(); if word in self.cache: return self.cache[word]
\* The threads are numbered in the order their requests arrive.
BeginLookup(t) ==
    /\ threads[t].pc = "idle"
    /\ \A u \in 1..(t - 1) : threads[u].pc # "idle"
    /\ \E raw_word \in ThreadWords :
       \E word \in {NormalizeWord(raw_word)} :
       \E call \in {[threads[t] EXCEPT !.raw_word = raw_word, !.word = word,
                        !.previous = returned[SameWordKey(raw_word)]]} :
          IF CacheHas(cache, word)
          THEN Return(t, call, Object(CacheGet(cache, word)))
          ELSE /\ threads' = [threads EXCEPT ![t] = [call EXCEPT !.pc = "dictionary"]]
               /\ UNCHANGED returned
    /\ UNCHANGED <<cache, heap, made_for, not_threads>>

\* dict_data = self.get_dictionary_data(word)
\* if "error" in dict_data: return dict_data
DictionaryCall(t) ==
    /\ threads[t].pc = "dictionary"
    /\ \E response \in ThreadDictionaryResponses :
       \E dict_data \in {get_dictionary_data(threads[t].word, response)} :
       \E call \in {[threads[t] EXCEPT !.dict_data = dict_data,
                        !.calls = Append(@, "dictionary")]} :
          IF IsRaise(dict_data)
          THEN Return(t, call, Handler(dict_data.v, call.word))
          ELSE IF dict_data.t = "error"
          THEN Return(t, call, dict_data)
          ELSE /\ threads' = [threads EXCEPT ![t] = [call EXCEPT !.pc = "thesaurus"]]
               /\ UNCHANGED returned
    /\ UNCHANGED <<cache, heap, made_for, not_threads>>

\* thesaurus_data = self.get_thesaurus_data(word)
ThesaurusCall(t) ==
    /\ threads[t].pc = "thesaurus"
    /\ \E response \in ThreadThesaurusResponses :
       \E thesaurus_data \in {get_thesaurus_data(threads[t].word, response)} :
       \E call \in {[threads[t] EXCEPT !.thesaurus_data = thesaurus_data,
                        !.calls = Append(@, "thesaurus")]} :
          IF IsRaise(thesaurus_data)
          THEN Return(t, call, Handler(thesaurus_data.v, call.word))
          ELSE /\ threads' = [threads EXCEPT ![t] = [call EXCEPT !.pc = "translation"]]
               /\ UNCHANGED returned
    /\ UNCHANGED <<cache, heap, made_for, not_threads>>

\* combined_data = dict_data.copy(); combined_data.update(thesaurus_data)
\* combined_data['Turkish_Translation'] = self.translate_to_turkish(word)
TranslationCall(t) ==
    /\ threads[t].pc = "translation"
    /\ \E translation \in ThreadTranslations :
          /\ heap' = Append(heap,
                        Combined(threads[t].dict_data, threads[t].thesaurus_data,
                                 translate_to_turkish(threads[t].word, translation)))
          /\ made_for' = Append(made_for, threads[t].raw_word)
          /\ threads' = [threads EXCEPT ![t].pc = "store",
                                        ![t].combined_data = Len(heap) + 1,
                                        ![t].calls = Append(@, "translation")]
    /\ UNCHANGED <<cache, returned, not_threads>>

\* self.cache[word] = combined_data
StoreResult(t) ==
    /\ threads[t].pc = "store"
    /\ cache' = CachePut(cache, threads[t].word, threads[t].combined_data)
    /\ threads' = [threads EXCEPT ![t].pc = "return", ![t].stored = TRUE]
    /\ UNCHANGED <<heap, made_for, returned, not_threads>>

\* return combined_data
ReturnResult(t) ==
    /\ threads[t].pc = "return"
    /\ Return(t, threads[t], Object(threads[t].combined_data))
    /\ UNCHANGED <<cache, heap, made_for, not_threads>>

-----------------------------------------------------------------------------
(* Specifications: one per component, the other components at rest.        *)

NoQuizRequest ==
    [selected_option |-> <<>>, correct_answer |-> <<>>, options |-> <<>>]

\* The audio manager resolves any filename.
InitAudio ==
    /\ audio_filename \in Filenames
    /\ audio_subdirectory = NotYet /\ audio_info = NotYet
    /\ strip_site = "etymology" /\ strip_text = <<>>
    /\ strip_once = NotYet /\ strip_twice = NotYet
    /\ quiz_request = NoQuizRequest /\ quiz_response = NotYet
    /\ favorites_file = NoFile /\ favorites_data = <<>> /\ fav_last = NoRequest
    /\ cache = <<>> /\ heap = <<>> /\ lookup_last = NotYet
    /\ threads = NotYet /\ made_for = <<>>
    /\ returned = [k \in LookupKeys |-> NotYet]
    /\ parse_response = NotYet /\ parse_thesaurus = NotYet
    /\ parse_translation = NotYet /\ parse_result = NotYet

SpecAudio == InitAudio /\ [][ResolveAudio]_vars

\* The parser strips any raw text at any of its call sites.
InitStrip ==
    /\ strip_site \in Sites /\ strip_text \in RawTexts
    /\ strip_once = NotYet /\ strip_twice = NotYet
    /\ audio_filename = <<>> /\ audio_subdirectory = NotYet /\ audio_info = NotYet
    /\ quiz_request = NoQuizRequest /\ quiz_response = NotYet
    /\ favorites_file = NoFile /\ favorites_data = <<>> /\ fav_last = NoRequest
    /\ cache = <<>> /\ heap = <<>> /\ lookup_last = NotYet
    /\ threads = NotYet /\ made_for = <<>>
    /\ returned = [k \in LookupKeys |-> NotYet]
    /\ parse_response = NotYet /\ parse_thesaurus = NotYet
    /\ parse_translation = NotYet /\ parse_result = NotYet

NextStrip == StripField \/ StripAgain

SpecStrip == InitStrip /\ [][NextStrip]_vars

\* One quiz check of any request.
InitQuiz ==
    /\ quiz_request \in QuizRequests /\ quiz_response = NotYet
    /\ audio_filename = <<>> /\ audio_subdirectory = NotYet /\ audio_info = NotYet
    /\ strip_site = "etymology" /\ strip_text = <<>>
    /\ strip_once = NotYet /\ strip_twice = NotYet
    /\ favorites_file = NoFile /\ favorites_data = <<>> /\ fav_last = NoRequest
    /\ cache = <<>> /\ heap = <<>> /\ lookup_last = NotYet
    /\ threads = NotYet /\ made_for = <<>>
    /\ returned = [k \in LookupKeys |-> NotYet]
    /\ parse_response = NotYet /\ parse_thesaurus = NotYet
    /\ parse_translation = NotYet /\ parse_result = NotYet

SpecQuiz == InitQuiz /\ [][CheckQuizAnswer]_vars

\* The process starts by loading favorites.json; then favorites requests
\* arrive one at a time.
InitFav ==
    /\ favorites_file \in InitialFiles
    /\ favorites_data = load_favorites(favorites_file)
    /\ fav_last = NoRequest
    /\ audio_filename = <<>> /\ audio_subdirectory = NotYet /\ audio_info = NotYet
    /\ strip_site = "etymology" /\ strip_text = <<>>
    /\ strip_once = NotYet /\ strip_twice = NotYet
    /\ quiz_request = NoQuizRequest /\ quiz_response = NotYet
    /\ cache = <<>> /\ heap = <<>> /\ lookup_last = NotYet
    /\ threads = NotYet /\ made_for = <<>>
    /\ returned = [k \in LookupKeys |-> NotYet]
    /\ parse_response = NotYet /\ parse_thesaurus = NotYet
    /\ parse_translation = NotYet /\ parse_result = NotYet

\* A fresh process: an empty cache; then lookups arrive one at a time.
InitLookup ==
    /\ cache = <<>> /\ heap = <<>> /\ lookup_last = NotYet
    /\ threads = NotYet /\ made_for = <<>>
    /\ returned = [k \in LookupKeys |-> NotYet]
    /\ audio_filename = <<>> /\ audio_subdirectory = NotYet /\ audio_info = NotYet
    /\ strip_site = "etymology" /\ strip_text = <<>>
    /\ strip_once = NotYet /\ strip_twice = NotYet
    /\ quiz_request = NoQuizRequest /\ quiz_response = NotYet
    /\ favorites_file = NoFile /\ favorites_data = <<>> /\ fav_last = NoRequest
    /\ parse_response = NotYet /\ parse_thesaurus = NotYet
    /\ parse_translation = NotYet /\ parse_result = NotYet

SpecLookup == InitLookup /\ [][Lookup]_vars

\* One lookup on any dictionary response.
InitParse ==
    /\ parse_response \in ParseResponses
    /\ parse_thesaurus \in ThesaurusResponses
    /\ parse_translation \in Translations
    /\ parse_result = NotYet
    /\ cache = <<>> /\ heap = <<>> /\ lookup_last = NotYet
    /\ threads = NotYet /\ made_for = <<>>
    /\ returned = [k \in LookupKeys |-> NotYet]
    /\ audio_filename = <<>> /\ audio_subdirectory = NotYet /\ audio_info = NotYet
    /\ strip_site = "etymology" /\ strip_text = <<>>
    /\ strip_once = NotYet /\ strip_twice = NotYet
    /\ quiz_request = NoQuizRequest /\ quiz_response = NotYet
    /\ favorites_file = NoFile /\ favorites_data = <<>> /\ fav_last = NoRequest

SpecParse == InitParse /\ [][ParseLookup]_vars

\* A fresh process whose request threads each make one lookup, interleaved
\* in any way.
InitThreads ==
    /\ threads = [t \in Threads |-> NoCall] /\ made_for = <<>>
    /\ cache = <<>> /\ heap = <<>> /\ lookup_last = NotYet
    /\ returned = [k \in LookupKeys |-> NotYet]
    /\ audio_filename = <<>> /\ audio_subdirectory = NotYet /\ audio_info = NotYet
    /\ strip_site = "etymology" /\ strip_text = <<>>
    /\ strip_once = NotYet /\ strip_twice = NotYet
    /\ quiz_request = NoQuizRequest /\ quiz_response = NotYet
    /\ favorites_file = NoFile /\ favorites_data = <<>> /\ fav_last = NoRequest
    /\ parse_response = NotYet /\ parse_thesaurus = NotYet
    /\ parse_translation = NotYet /\ parse_result = NotYet

NextThreads ==
    \E t \in Threads :
        \/ BeginLookup(t)
        \/ DictionaryCall(t)
        \/ ThesaurusCall(t)
        \/ TranslationCall(t)
        \/ StoreResult(t)
        \/ ReturnResult(t)

SpecThreads == InitThreads /\ [][NextThreads]_vars

NextFav == AddFavorite \/ RemoveFavorite \/ ClearFavorites

SpecFav == InitFav /\ [][NextFav]_vars

-----------------------------------------------------------------------------
(* Claims                                                                  *)

\* The key an entry is compared by: its "Word" lowercased; an entry with no
\* "Word", or with one that is no string, by what it holds instead.
CaseKey(fav) ==
    IF ~HasKey(fav, kWord) THEN None
    ELSE IF Get(fav, kWord).t = "str" THEN Str(Lower(Get(fav, kWord).v))
    ELSE Get(fav, kWord)

\* C1: after any sequence of add_favorite, remove_favorite and
\* clear_favorites requests, no two entries of the favorites collection have
\* the same case-insensitive Word.
C1_OneEntryPerWord ==
    \A i, j \in DOMAIN favorites_data :
        i # j => CaseKey(favorites_data[i]) # CaseKey(favorites_data[j])

\* "Cat" is in the collection, and adding "cat" was answered "already in
\* favorites": one entry.
C1_Witness ==
    /\ fav_last.op = "add" /\ fav_last.arg = Entry(cat, <<"b">>)
    /\ fav_last.status = 200 /\ ~fav_last.success
    /\ favorites_data = <<Entry(Cat, <<"a">>)>>

\* The last request changed the collection: an add that inserted, a remove
\* that deleted, a clear. These are the requests that call save_favorites.
Mutated == fav_last.op # "none" /\ fav_last.saved

C3_SecondLookupCached ==
    (lookup_last # NotYet /\ lookup_last.previous # NotYet) =>
        /\ lookup_last.result = lookup_last.previous
        /\ lookup_last.calls = <<>>

\* C3, amended: once a lookup of a word has returned a combined result,
\* the next lookup of the same word (same after trimming and lowercasing)
\* returns the identical object and makes no remote call; after a lookup
\* that returned an error, the next lookup of the word calls the dictionary
\* API again.
C3_CachedAfterSuccess ==
    (lookup_last # NotYet /\ lookup_last.previous # NotYet) =>
        /\ lookup_last.previous.t = "object" =>
              /\ lookup_last.result = lookup_last.previous
              /\ lookup_last.calls = <<>>
        /\ lookup_last.previous.t = "error" =>
              /\ lookup_last.calls # <<>>
              /\ lookup_last.calls[1] = "dictionary"

\* "CAT " is looked up after another lookup of cat has returned a combined
\* result, and is answered from the cache.
C3_Witness ==
    /\ lookup_last # NotYet
    /\ lookup_last.word = <<"C","A","T"," ">>
    /\ lookup_last.previous = Object(1)
    /\ lookup_last.result = Object(1)
    /\ lookup_last.calls = <<>>
    /\ Len(heap) = 2

\* C4: on a cache miss the dictionary call is the first remote call; when
\* the dictionary fetch yields an error result, that result is returned and
\* the dictionary call is the only remote call of the lookup; a thesaurus
\* call comes before a translation call.
C4_ErrorReturnedImmediately ==
    lookup_last # NotYet =>
        /\ ~lookup_last.hit =>
              /\ lookup_last.calls # <<>>
              /\ lookup_last.calls[1] = "dictionary"
        /\ (~lookup_last.hit /\ lookup_last.dict_data.t = "error") =>
              /\ lookup_last.result = lookup_last.dict_data
              /\ lookup_last.calls = <<"dictionary">>
        /\ \A i, j \in DOMAIN lookup_last.calls :
              (lookup_last.calls[i] = "thesaurus"
                  /\ lookup_last.calls[j] = "translation") => i < j

\* A lookup misses the cache, the dictionary API answers with suggestions,
\* and the lookup returns word_not_found after that one call.
C4_Witness ==
    /\ lookup_last # NotYet
    /\ ~lookup_last.hit
    /\ lookup_last.dict_data.t = "error"
    /\ lookup_last.dict_data.error = "word_not_found"
    /\ lookup_last.result = lookup_last.dict_data
    /\ lookup_last.calls = <<"dictionary">>

\* C5: a lookup whose dictionary request fails in transport returns
\* network_error, and one whose dictionary response has a status other than
\* 200 returns api_error.
C5_FailureKinds ==
    parse_result # NotYet =>
        /\ parse_response.kind = "raises" =>
              /\ parse_result.result.t = "error"
              /\ parse_result.result.error = "network_error"
        /\ (parse_response.kind = "http" /\ parse_response.status # 200) =>
              /\ parse_result.result.t = "error"
              /\ parse_result.result.error = "api_error"

\* The thesaurus call failed: a transport error, a status other than 200, a
\* body that is no list, an empty list, a list of suggestions.
ThesaurusFailed(response) ==
    \/ response.kind = "raises"
    \/ response.status # 200
    \/ response.body.t # "list"
    \/ response.body.v = <<>>
    \/ response.body.v[1].t = "str"

\* C6: when the dictionary fetch succeeds the lookup returns a combined
\* result, whatever the thesaurus call and the translation do: the
\* dictionary's fields, a marker in place of the thesaurus entries when the
\* thesaurus call failed, the placeholder in place of the translation when
\* the translator raised.
C6_NeverEscalates ==
    (parse_result # NotYet /\ parse_result.dict_data.t = "word_data") =>
        /\ parse_result.result.t = "object"
        /\ parse_result.calls = <<"dictionary", "thesaurus", "translation">>
        /\ parse_result.data.Dictionary_Data = parse_result.dict_data.Dictionary_Data
        /\ parse_result.data.Thesaurus_Data.t \in {"marker", "list"}
        /\ ThesaurusFailed(parse_thesaurus) =>
              parse_result.data.Thesaurus_Data.t = "marker"
        /\ parse_translation.kind = "raises" =>
              parse_result.data.Turkish_Translation = TranslationNotFound
        /\ parse_translation.kind = "ok" =>
              parse_result.data.Turkish_Translation = parse_translation.text

\* The dictionary fetch succeeds, the thesaurus request fails in transport
\* and the translator raises: the result has the marker and the placeholder.
C6_Witness ==
    /\ parse_result # NotYet
    /\ parse_result.dict_data.t = "word_data"
    /\ parse_thesaurus = Raises
    /\ parse_translation = TranslatorRaises
    /\ parse_result.result.t = "object"
    /\ parse_result.data.Thesaurus_Data = Marker("Thesaurus data unavailable")
    /\ parse_result.data.Turkish_Translation = TranslationNotFound

\* C7: a dictionary response that is a non-empty list whose first element
\* is no string never makes the lookup return an error result, whatever is
\* malformed or missing in its entries.
C7_MalformedNeverFails ==
    (/\ parse_result # NotYet
     /\ parse_response.kind = "http"
     /\ parse_response.status = 200
     /\ parse_response.body.t = "list"
     /\ parse_response.body.v # <<>>
     /\ parse_response.body.v[1].t # "str") =>
        parse_result.result.t # "error"

\* Every cache entry is keyed by a trimmed lowercased word and holds a
\* combined result made by a lookup of that word; no word has two entries.
CacheSound ==
    /\ \A i \in DOMAIN cache :
          LET word == cache[i][1]
              id == cache[i][2]
          IN  /\ Strip(word) = word /\ Lower(word) = word
              /\ id \in DOMAIN heap
              /\ heap[id].t = "word_data"
              /\ SameWordKey(made_for[id]) = word
    /\ \A i, j \in DOMAIN cache : cache[i][1] = cache[j][1] => i = j

\* Only a lookup whose dictionary fetch succeeded, and which returns its
\* combined result, has written the cache: a lookup that returns an error
\* has not.
WrittenOnSuccess ==
    \A t \in Threads :
        /\ threads[t].stored =>
              /\ threads[t].dict_data.t = "word_data"
              /\ threads[t].pc = "done" =>
                    threads[t].result = Object(threads[t].combined_data)
        /\ (threads[t].pc = "done" /\ threads[t].result.t = "error") =>
              ~threads[t].stored

\* C11, as stated: under any interleaving the cache is sound and written
\* only on success, and the race has no effect but duplicate remote calls:
\* as without it, a lookup that begins after a lookup of the same word has
\* returned a combined result returns that identical object and makes no
\* remote call.
C11_OnlyDuplicateCalls ==
    /\ CacheSound
    /\ WrittenOnSuccess
    /\ \A t \in Threads :
          (threads[t].pc = "done" /\ threads[t].previous.t = "object") =>
              /\ threads[t].calls = <<>>
              /\ threads[t].result = threads[t].previous

\* C11, amended: under any interleaving the cache is sound and written
\* only on success; a lookup that begins after a lookup of the same word has
\* returned a combined result makes no remote call and returns a cached
\* combined result of that word, which is another object than the one
\* returned before when a lookup of the word that had missed too has
\* replaced the entry since.
C11_SoundCache ==
    /\ CacheSound
    /\ WrittenOnSuccess
    /\ \A t \in Threads :
          (threads[t].pc = "done" /\ threads[t].previous.t = "object") =>
              /\ threads[t].calls = <<>>
              /\ threads[t].result.t = "object"
              /\ heap[threads[t].result.id].t = "word_data"
              /\ SameWordKey(made_for[threads[t].result.id])
                    = SameWordKey(threads[t].raw_word)

\* Two lookups of " Cat" both missed, both made their three remote calls
\* and both wrote the cache, which holds the result of the second; a third
\* lookup began after the first had returned and was given the second's
\* result.
C11_Witness ==
    \E t, u, v \in Threads :
        /\ threads[t].pc = "done" /\ threads[u].pc = "done" /\ threads[v].pc = "done"
        /\ threads[t].word = threads[u].word /\ threads[u].word = threads[v].word
        /\ threads[t].stored /\ threads[u].stored
        /\ Len(threads[t].calls) = 3 /\ Len(threads[u].calls) = 3
        /\ threads[t].result # threads[u].result
        /\ threads[v].calls = <<>>
        /\ threads[v].previous = threads[t].result
        /\ threads[v].result = threads[u].result
        /\ Len(cache) = 1 /\ cache[1][2] = threads[u].result.id

\* "OPTIONn": the word OPTION in any case, then the decimal digits of n.
OptionIndex(correct_answer) ==
    LET ref == Strip(Upper(correct_answer))
        ds == SubSeq(ref, Len(OPTION) + 1, Len(ref))
    IN  IF StartsWith(ref, OPTION) /\ ds # <<>> /\ \A i \in DOMAIN ds : IsDigit(ds[i])
        THEN DecimalValue(ds) ELSE 0

SameAnswer(a, b) == Lower(Strip(a)) = Lower(Strip(b))

\* C8 as stated: when correct_answer is not of the form OPTIONn, or its
\* index is outside 1..len(options), correct_answer itself is the correct
\* text returned and compared; in range, the text is options[n-1].
C8_LiteralFallback ==
    quiz_response # NotYet =>
        LET n == OptionIndex(quiz_request.correct_answer)
        IN  IF n \in 1..Len(quiz_request.options)
            THEN quiz_response.correct_answer = quiz_request.options[n]
            ELSE /\ quiz_response.correct_answer = quiz_request.correct_answer
                 /\ quiz_response.is_correct =
                      SameAnswer(quiz_request.selected_option,
                                 quiz_request.correct_answer)

\* s is a decimal numeral of n, as int() reads it: white space around it
\* and a plus sign are allowed.
Denotes(s, n) ==
    LET body == Strip(s)
        ds == IF body # <<>> /\ body[1] = "+" THEN Tail(body) ELSE body
    IN  /\ ds # <<>>
        /\ \A i \in DOMAIN ds : IsDigit(ds[i])
        /\ DecimalValue(ds) = n

\* C8, amended: with ref the upper-cased, trimmed correct_answer:
\* when ref does not start with OPTION, ref is the correct text; when it
\* does and what is left of ref after deleting OPTION reads as an integer n
\* in 1..len(options), the correct text is options[n-1]; otherwise the
\* correct text is selected_option itself and the answer counts as correct.
\* The correct text is returned, and is_correct compares it with
\* selected_option, trimmed, case-insensitively.
C8_Fallback ==
    quiz_response # NotYet =>
        LET ref == Strip(Upper(quiz_request.correct_answer))
            options == quiz_request.options
            selected == quiz_request.selected_option
            InRange(n) == Denotes(Replace(ref, OPTION), n)
        IN  IF ~StartsWith(ref, OPTION)
            THEN /\ quiz_response.correct_answer = ref
                 /\ quiz_response.is_correct = SameAnswer(selected, ref)
            ELSE IF \E n \in 1..Len(options) : InRange(n)
            THEN \A n \in 1..Len(options) :
                    InRange(n) =>
                        /\ quiz_response.correct_answer = options[n]
                        /\ quiz_response.is_correct = SameAnswer(selected, options[n])
            ELSE /\ quiz_response.correct_answer = selected
                 /\ quiz_response.is_correct

\* "OPTION9" against three options: the selected text comes back as correct.
C8_Witness ==
    /\ quiz_response # NotYet
    /\ quiz_request.correct_answer = <<"O","P","T","I","O","N","9">>
    /\ Len(quiz_request.options) = 3
    /\ quiz_request.selected_option = <<"z">>
    /\ quiz_response.is_correct
    /\ quiz_response.correct_answer = <<"z">>

\* C9 as stated: for every input text and each call site, stripping the
\* stripped text returns it unchanged.
C9_Idempotent == strip_twice # NotYet => strip_twice = strip_once

\* C9, amended: for every input text made of whole tags of the call site
\* and of characters other than "{", "}" and "|", stripping the stripped
\* text returns it unchanged.
C9_IdempotentUnnested ==
    (strip_twice # NotYet /\ IsUnnested(strip_site, strip_text)) =>
        strip_twice = strip_once

\* A text of whole tags and plain characters lost its tags and its outer
\* white space, and was stripped again.
C9_Witness ==
    /\ strip_twice # NotYet
    /\ IsUnnested(strip_site, strip_text)
    /\ ContainsTag(strip_site, strip_text)
    /\ Len(strip_once.v) > 0
    /\ Len(StripTagsNoTrim(strip_site, strip_text)) > Len(strip_once.v)

Punctuation == {"_", ".", "!", "?", ","}

\* C10: the subdirectory of a filename follows the precedence: empty ->
\* "bix"; a leading ASCII digit -> "number"; a leading _ . ! ? , -> "bix";
\* a leading "gg" -> "gg"; else the first character, lowercased; and the
\* URL is base + subdirectory + "/" + filename + ".mp3".
C10_Precedence ==
    audio_subdirectory # NotYet =>
        LET F == audio_filename
            sub == audio_subdirectory.v
            digit == F # <<>> /\ IsDigit(F[1])
            punct == F # <<>> /\ F[1] \in Punctuation
            gg == Len(F) >= 2 /\ F[1] = "g" /\ F[2] = "g"
        IN  /\ F = <<>> => sub = <<"b","i","x">>
            /\ digit => sub = <<"n","u","m","b","e","r">>
            /\ punct => sub = <<"b","i","x">>
            /\ (gg /\ ~digit /\ ~punct) => sub = <<"g","g">>
            /\ (F # <<>> /\ ~digit /\ ~punct /\ ~gg) => sub = <<LowerChar(F[1])>>
            /\ F # <<>> =>
                 /\ audio_info.made
                 /\ audio_info.url =
                      base_audio_url \o Join(sub) \o "/" \o Join(F) \o ".mp3"

\* "Gg" is no "gg": it goes to "g".
C10_Witness ==
    /\ audio_subdirectory # NotYet
    /\ audio_filename = <<"G","g">>
    /\ audio_info.url =
         "https://media.merriam-webster.com/audio/prons/en/us/mp3/g/Gg.mp3"

=============================================================================
